---- MODULE Spec2Model ----
(***************************************************************************)
(* Model of flows-app-mssql: the shared connection pool manager (getPool)   *)
(* and the operation blocks (executeQuery, executeCommand, bulkInsert,      *)
(* streamQuery with its streamRows adapter, getTableInfo).                  *)
(*                                                                          *)
(* Spec      : interleavings of getPool invocations with the driver's       *)
(*             close/connect completions.                                   *)
(* SpecBlock : one invocation of one block, interleaved with the driver's   *)
(*             row/error/done events.                                       *)
(***************************************************************************)
EXTENDS Integers, Sequences, FiniteSets, TLC

\* ---------------------------------------------------------------- bounds
\* number of getPool invocations in one behaviour
MaxCalls == 3
\* number of rows of a result set or of a bulk insert
MaxRows == 5
\* largest batchSize given explicitly
MaxBatch == 3
\* rows the driver may have buffered in rowQueue ahead of the consumer
MaxQueue == 5
\* number of error events the driver emits during one streamed query
MaxErrors == 1
\* entries of a result's rowsAffected array, and the largest entry
MaxStatements == 2
MaxAffected == 2

\* ------------------------------------------------------------- pool state
VARIABLES
    globalPool,                 \* 0 (null) or the id of the shared pool
    currentConfigHash,          \* NullHash or the hash stored with the pool
    poolInitializationPromise,  \* 0 (null) or the id of the call whose async block it is
    pools,                      \* every ConnectionPool ever constructed, by id
    calls                       \* every getPool invocation so far, by id

poolVars == <<globalPool, currentConfigHash, poolInitializationPromise, pools, calls>>

\* ------------------------------------------------------------ block state
VARIABLES
    block,          \* which block's onEvent runs
    input,          \* input.event.inputConfig
    resultSet,      \* the rows the database holds for the query
    pc,             \* where onEvent (and the streamRows generator) is suspended
    driver,         \* the driver's progress through the streamed request
    resolver,       \* streamRows: resolver # null
    rejecter,       \* streamRows: rejecter # null
    rowQueue,       \* streamRows: rowQueue
    done,           \* streamRows: done
    error,          \* streamRows: error # null
    promise,        \* the promise of line 197: state and value
    delivered,      \* the value the generator yielded, on its way to the loop body
    batchNumber,    \* streamQuery: batchNumber
    currentBatch,   \* streamQuery: currentBatch
    issued,         \* history: the queries sent through request.query
    result,         \* history: rowsAffected of the last resolved query
    emitted         \* history: the events passed to events.emit, in order

VARIABLES
    tableInfo,          \* getTableInfo: tableResult.recordset[0]
    columnsResult,      \* getTableInfo: columnsResult.recordset
    constraintsResult   \* getTableInfo: constraintsResult.recordset

infoVars == <<tableInfo, columnsResult, constraintsResult>>

blockVars == <<block, input, resultSet, pc, driver, resolver, rejecter, rowQueue,
               done, error, promise, delivered, batchNumber, currentBatch,
               issued, result, emitted, infoVars>>

streamVars == <<driver, resolver, rejecter, rowQueue, done, error, promise,
                delivered, batchNumber, currentBatch>>

\* ------------------------------------------------------------- sync state
VARIABLES
    sync            \* one onSync invocation: position, locals and what happened

syncVars == <<sync>>

\* ------------------------------------------------------------ pool manager
NullHash == <<>>

\* The application configurations getPool is called with.  `label` stands for
\* any configuration entry that is neither hashed nor used for the pool.
AppConfigs == [server : {"sqlA", "sqlB"}, database : {"master"}, label : {"x", "y"}]

\* The digest of the JSON text of the ten connection fields: equal exactly
\* when those fields are equal (sha256 taken as collision free).
getConfigHash(appConfig) == <<appConfig.server, appConfig.database>>

createPoolConfig(appConfig) ==
    [server |-> appConfig.server, database |-> appConfig.database]

\* new sql.ConnectionPool(poolConfig): not connected, close never invoked.
NewPool(appConfig) ==
    [config     |-> createPoolConfig(appConfig),
     hash       |-> getConfigHash(appConfig),
     connected  |-> FALSE,
     connectOk  |-> FALSE,      \* history: getPool completed connect on it
     closeCalls |-> 0]          \* history: how often close was invoked

PoolIds == 1 .. Len(pools)
CallIds == 1 .. Len(calls)

\* line 66: the shared pool can be handed out as it is
HasUsablePool(configHash) ==
    /\ globalPool # 0
    /\ currentConfigHash = configHash
    /\ pools[globalPool].connected

\* line 71: an initialization is in progress and is taken to be for this hash
InitInProgressFor(configHash) ==
    /\ poolInitializationPromise # 0
    /\ currentConfigHash = configHash

\* a getPool that never closes the old pool
ConfigChanged_never(configHash) == FALSE

\* line 79: the old pool has to be closed first
ConfigChanged(configHash) ==
    /\ globalPool # 0
    /\ currentConfigHash # configHash

NewCall(appConfig) ==
    [config   |-> appConfig,
     pc       |-> "start",
     awaits   |-> 0,            \* the call whose promise was returned (line 72)
     oldPool  |-> 0,            \* the pool whose close is awaited (line 82)
     newPool  |-> 0,            \* the pool constructed at line 91
     result   |-> 0,            \* the pool the call resolved to
     sawOld   |-> 0,            \* history: shared pool of another hash at call time
     closeErr |-> FALSE]        \* history: the awaited close rejected

\* lines 91-99: construct the pool and start connect
StartConnect(call) ==
    [call EXCEPT !.pc = "connecting", !.newPool = Len(pools) + 1]

\* getPool(appConfig) up to its first await or return (lines 62-99), on the
\* pool manager's state.
GetPoolCall(appConfig, drop) ==
    LET configHash == getConfigHash(appConfig)
        id == Len(calls) + 1
        seen == IF globalPool # 0 /\ pools[globalPool].hash # configHash
                THEN globalPool ELSE 0
        call == [NewCall(appConfig) EXCEPT !.sawOld = seen]
    IN
    /\ Len(calls) < MaxCalls
    /\ IF HasUsablePool(configHash)
       THEN /\ calls' = Append(calls, [call EXCEPT !.pc = "resolved", !.result = globalPool])
            /\ drop = FALSE
            /\ UNCHANGED <<globalPool, currentConfigHash, poolInitializationPromise, pools>>
       ELSE IF InitInProgressFor(configHash)
       THEN /\ calls' = Append(calls, [call EXCEPT !.pc = "waiting",
                                                   !.awaits = poolInitializationPromise])
            /\ drop = FALSE
            /\ UNCHANGED <<globalPool, currentConfigHash, poolInitializationPromise, pools>>
       ELSE /\ poolInitializationPromise' = id
            /\ IF ConfigChanged(configHash)
               THEN \* globalPool.close() is invoked; the driver drops `connected`
                    \* now or when the close completes
                    /\ pools' = [pools EXCEPT
                                   ![globalPool].closeCalls = @ + 1,
                                   ![globalPool].connected = IF drop THEN FALSE ELSE @]
                    /\ calls' = Append(calls, [call EXCEPT !.pc = "closing",
                                                           !.oldPool = globalPool])
               ELSE /\ drop = FALSE
                    /\ pools' = Append(pools, NewPool(appConfig))
                    /\ calls' = Append(calls, StartConnect(call))
            /\ UNCHANGED <<globalPool, currentConfigHash>>

\* a getPool call of some caller, no block being modelled
GetPool(appConfig, drop) ==
    /\ GetPoolCall(appConfig, drop)
    /\ UNCHANGED <<blockVars, syncVars>>

\* lines 82-99: the awaited close settles (an error is caught and logged),
\* globalPool is cleared, the new pool is constructed and connect starts.
CloseSettles(c, ok) ==
    /\ c \in CallIds
    /\ calls[c].pc = "closing"
    /\ globalPool' = 0
    /\ pools' = Append([pools EXCEPT ![calls[c].oldPool].connected = IF ok THEN FALSE ELSE @],
                       NewPool(calls[c].config))
    /\ calls' = [calls EXCEPT ![c] = [StartConnect(@) EXCEPT !.closeErr = ~ok]]
    /\ UNCHANGED <<currentConfigHash, poolInitializationPromise>>
    /\ UNCHANGED <<blockVars, syncVars>>

\* lines 99-109, connect resolved: store pool and hash, clear the promise.
ConnectResolves(c) ==
    /\ c \in CallIds
    /\ calls[c].pc = "connecting"
    /\ pools' = [pools EXCEPT ![calls[c].newPool].connected = TRUE,
                              ![calls[c].newPool].connectOk = TRUE]
    /\ globalPool' = calls[c].newPool
    /\ currentConfigHash' = getConfigHash(calls[c].config)
    /\ poolInitializationPromise' = 0
    /\ calls' = [calls EXCEPT ![c].pc = "resolved", ![c].result = calls[c].newPool]
    /\ UNCHANGED <<blockVars, syncVars>>

\* lines 99, 106-109, connect rejected: only the finally block runs.
ConnectRejects(c) ==
    /\ c \in CallIds
    /\ calls[c].pc = "connecting"
    /\ poolInitializationPromise' = 0
    /\ calls' = [calls EXCEPT ![c].pc = "rejected"]
    /\ UNCHANGED <<globalPool, currentConfigHash, pools>>
    /\ UNCHANGED <<blockVars, syncVars>>

\* line 72: a call that returned the promise in progress settles as it does.
WaiterSettles(c) ==
    /\ c \in CallIds
    /\ calls[c].pc = "waiting"
    /\ calls[calls[c].awaits].pc \in {"resolved", "rejected"}
    /\ calls' = [calls EXCEPT ![c].pc = calls[calls[c].awaits].pc,
                              ![c].result = calls[calls[c].awaits].result]
    /\ UNCHANGED <<globalPool, currentConfigHash, poolInitializationPromise, pools>>
    /\ UNCHANGED <<blockVars, syncVars>>

PoolInit ==
    /\ globalPool = 0
    /\ currentConfigHash = NullHash
    /\ poolInitializationPromise = 0
    /\ pools = <<>>
    /\ calls = <<>>

PoolNext ==
    \/ \E appConfig \in AppConfigs, drop \in BOOLEAN : GetPool(appConfig, drop)
    \/ \E c \in 1 .. MaxCalls, ok \in BOOLEAN : CloseSettles(c, ok)
    \/ \E c \in 1 .. MaxCalls : ConnectResolves(c)
    \/ \E c \in 1 .. MaxCalls : ConnectRejects(c)
    \/ \E c \in 1 .. MaxCalls : WaiterSettles(c)

\* ----------------------------------------------------------- block inputs
Blocks == {"executeQuery", "executeCommand", "bulkInsert", "streamQuery", "getTableInfo"}

\* input.app.config of the block invocation
BlockAppConfig == [server |-> "sqlA", database |-> "master", label |-> "x"]

\* the getPool call of the block invocation: the latest call
BlockCallId == Len(calls)

\* `const pool = await getPool(input.app.config)` has resolved / has rejected
PoolAcquired == pc = "getPool" /\ calls[BlockCallId].pc = "resolved"
PoolRefused == pc = "getPool" /\ calls[BlockCallId].pc = "rejected"

\* streamQuery.ts line 266 (bulkInsert.ts in this tree): the default batch size
DefaultBatchSize == 100

\* A column value: its JavaScript type and its decimal text.
Value(t, n) == [t |-> t, s |-> ToString(n)]

\* Row i of a result set; `id` tells the rows apart, `val` is its one column.
Row(i, t) == [id |-> i, val |-> Value(t, i)]

\* The value `undefined`, as it travels where rows travel.
Undefined == [id |-> 0, val |-> [t |-> "undefined", s |-> ""]]

RowSetsOfLen(n) == { [i \in 1 .. n |-> Row(i, kinds[i])] : kinds \in [1 .. n -> {"number", "bigint"}] }

RowSets == UNION { RowSetsOfLen(n) : n \in 0 .. MaxRows }

\* A result set one row longer than the default batch size.
LongRowSets == { [i \in 1 .. DefaultBatchSize + 1 |->
                     Row(i, IF i % 2 = 0 THEN "bigint" ELSE "number")] }

\* batchSize of the input config: absent, or a number
NoBatchSize == [given |-> FALSE, n |-> 0]
BatchSizes == {NoBatchSize} \cup { [given |-> TRUE, n |-> k] : k \in 0 .. MaxBatch }

\* Table names, as sequences of characters
TableNames == { <<"u">>, <<"d", ".", "u">>, <<"[", "u", "]">>, <<"d", ".", "[", "u">> }

\* ----------------------------------------------------------- pure helpers
\* lines 284-291 (streamQuery), 45-55 (executeQuery): bigint values become strings
serializeRow(row) ==
    [row EXCEPT !.val = IF @.t = "bigint" THEN [t |-> "string", s |-> @.s] ELSE @]

serializeRows(rows) == [i \in 1 .. Len(rows) |-> serializeRow(rows[i])]

RECURSIVE SumSeq(_)
\* rowsAffected.reduce((sum, count) => sum + count, 0)
SumSeq(xs) == IF xs = <<>> THEN 0 ELSE Head(xs) + SumSeq(Tail(xs))

RECURSIVE RemoveBrackets(_)
RemoveBrackets(name) ==
    IF name = <<>> THEN <<>>
    ELSE IF Head(name) \in {"[", "]"} THEN RemoveBrackets(Tail(name))
    ELSE <<Head(name)>> \o RemoveBrackets(Tail(name))

sanitizeIdentifier(name) == <<"[">> \o RemoveBrackets(name) \o <<"]">>

RECURSIVE SplitDot(_, _)
\* tableName.split("."): `part` is the part being read
SplitDot(name, part) ==
    IF name = <<>> THEN <<part>>
    ELSE IF Head(name) = "." THEN <<part>> \o SplitDot(Tail(name), <<>>)
    ELSE SplitDot(Tail(name), Append(part, Head(name)))

RECURSIVE JoinDot(_)
JoinDot(parts) ==
    IF Len(parts) = 1 THEN parts[1]
    ELSE parts[1] \o <<".">> \o JoinDot(Tail(parts))

sanitizeTableName(tableName) ==
    LET parts == SplitDot(tableName, <<>>)
    IN JoinDot([i \in 1 .. Len(parts) |-> sanitizeIdentifier(parts[i])])

\* line 266: (configBatchSize as number) || 100
EffectiveBatchSize(configBatchSize) ==
    IF configBatchSize.given /\ configBatchSize.n # 0
    THEN configBatchSize.n
    ELSE DefaultBatchSize

\* line 115: totalRowsAffected || rowsData.length
ReportedRowCount(totalRowsAffected, nRows) ==
    IF totalRowsAffected # 0 THEN totalRowsAffected ELSE nRows

\* ------------------------------------------------- streamRows, streamQuery
\* lines 296-301 and 309-314: the batch event
BatchEvent(bn, rows, more) ==
    [batchNumber |-> bn, rows |-> rows, rowCount |-> Len(rows), hasMore |-> more]

\* a batch test that lets one row too many in
BatchFull_late(batch, batchSize) == Len(batch) > batchSize

\* line 295
BatchFull(batch, batchSize) == Len(batch) >= batchSize

\* a batch counter that is never advanced
NextBatchNumber_same(bn) == bn

\* line 302
NextBatchNumber(bn) == bn + 1

\* a queue that hands out the newest row first
Enqueue_front(queue, row) == <<row>> \o queue

\* line 167: rowQueue.push(row)
Enqueue(queue, row) == Append(queue, row)

\* lines 164, 174, 182, 200-202: settle the promise of line 197; settling a
\* promise that is already settled does nothing
Settle(p, st, v) == IF p.st = "pending" THEN [st |-> st, v |-> v] ELSE p

NoPromise == [st |-> "none", v |-> Undefined]

StreamActive == block = "streamQuery" /\ driver.started /\ pc \notin {"done", "failed"}

\* lines 307-315: after the loop, emit the remaining rows
PostLoop(batch, bn) ==
    /\ IF Len(batch) > 0
       THEN /\ emitted' = Append(emitted, BatchEvent(bn, batch, FALSE))
            /\ pc' = "finalEmit"
       ELSE /\ emitted' = emitted
            /\ pc' = "done"
    /\ currentBatch' = batch
    /\ batchNumber' = bn
    /\ UNCHANGED <<rowQueue, delivered, promise, resolver, rejecter>>

\* lines 189-217: one turn of the generator's loop, up to its yield, its await,
\* its return or its throw.  The re-checks of lines 208-216 read the state the
\* tests of lines 190-194 have just read, so none of them fires.
GenLoop(batch, bn) ==
    IF error
    THEN /\ pc' = "failed"
         /\ currentBatch' = batch
         /\ batchNumber' = bn
         /\ UNCHANGED <<rowQueue, delivered, promise, resolver, rejecter, emitted>>
    ELSE IF rowQueue # <<>>
    THEN /\ delivered' = Head(rowQueue)
         /\ rowQueue' = Tail(rowQueue)
         /\ pc' = "yieldQ"
         /\ currentBatch' = batch
         /\ batchNumber' = bn
         /\ UNCHANGED <<promise, resolver, rejecter, emitted>>
    ELSE IF done
    THEN PostLoop(batch, bn)
    ELSE /\ promise' = [st |-> "pending", v |-> Undefined]
         /\ resolver' = TRUE
         /\ rejecter' = TRUE
         /\ pc' = "await"
         /\ currentBatch' = batch
         /\ batchNumber' = bn
         /\ UNCHANGED <<rowQueue, delivered, emitted>>

\* the generator resumed by next() after a yield: line 193 goes round the loop,
\* line 197 first tests for the end (lines 220-222)
AfterYield(from, batch, bn) ==
    IF from = "P" /\ done /\ rowQueue = <<>>
    THEN PostLoop(batch, bn)
    ELSE GenLoop(batch, bn)

YieldedFrom == IF pc \in {"yieldP", "emitP"} THEN "P" ELSE "Q"

\* lines 268-280, 154-197: the pool is there; the first next() registers the
\* handlers, sends the query and runs the generator to its first suspension
StreamStart ==
    /\ block = "streamQuery"
    /\ PoolAcquired
    /\ driver' = [driver EXCEPT !.started = TRUE]
    /\ issued' = Append(issued, [kind |-> "stream"])
    /\ GenLoop(<<>>, 0)
    /\ UNCHANGED <<block, input, resultSet, done, error, result>>
    /\ UNCHANGED <<poolVars, infoVars, syncVars>>

\* lines 162-169: the driver emits the next row
DriverRow ==
    /\ StreamActive
    /\ ~driver.finished
    /\ driver.next <= Len(resultSet)
    /\ Len(rowQueue) < MaxQueue
    /\ driver' = [driver EXCEPT !.next = @ + 1]
    /\ IF resolver
       THEN /\ promise' = Settle(promise, "resolved", resultSet[driver.next])
            /\ resolver' = FALSE
            /\ UNCHANGED rowQueue
       ELSE /\ rowQueue' = Enqueue(rowQueue, resultSet[driver.next])
            /\ UNCHANGED <<promise, resolver>>
    /\ UNCHANGED <<block, input, resultSet, pc, rejecter, done, error, delivered,
                   batchNumber, currentBatch, issued, result, emitted>>
    /\ UNCHANGED <<poolVars, infoVars, syncVars>>

\* lines 171-177: the driver emits an error
DriverError ==
    /\ StreamActive
    /\ ~driver.finished
    /\ driver.errors < MaxErrors
    /\ driver' = [driver EXCEPT !.errors = @ + 1,
                                !.errorAt = IF driver.errors = 0 THEN driver.next - 1 ELSE @]
    /\ error' = TRUE
    /\ IF rejecter
       THEN /\ promise' = Settle(promise, "rejected", Undefined)
            /\ rejecter' = FALSE
       ELSE UNCHANGED <<promise, rejecter>>
    /\ UNCHANGED <<block, input, resultSet, pc, resolver, rowQueue, done, delivered,
                   batchNumber, currentBatch, issued, result, emitted>>
    /\ UNCHANGED <<poolVars, infoVars, syncVars>>

\* lines 179-185: the driver emits done, after the last row or after an error
DriverDone ==
    /\ StreamActive
    /\ ~driver.finished
    /\ driver.next > Len(resultSet) \/ driver.errors > 0
    /\ driver' = [driver EXCEPT !.finished = TRUE]
    /\ done' = TRUE
    /\ IF resolver
       THEN /\ promise' = Settle(promise, "resolved", Undefined)
            /\ resolver' = FALSE
       ELSE UNCHANGED <<promise, resolver>>
    /\ UNCHANGED <<block, input, resultSet, pc, rejecter, rowQueue, error, delivered,
                   batchNumber, currentBatch, issued, result, emitted>>
    /\ UNCHANGED <<poolVars, infoVars, syncVars>>

\* line 197: the awaited promise has settled and the generator goes on: it
\* throws the rejection, or yields the value
AwaitResumes ==
    /\ block = "streamQuery"
    /\ pc = "await"
    /\ promise.st \in {"resolved", "rejected"}
    /\ IF promise.st = "rejected"
       THEN /\ pc' = "failed"
            /\ UNCHANGED delivered
       ELSE /\ pc' = "yieldP"
            /\ delivered' = promise.v
    /\ UNCHANGED <<block, input, resultSet, driver, resolver, rejecter, rowQueue,
                   done, error, promise, batchNumber, currentBatch, issued, result,
                   emitted>>
    /\ UNCHANGED <<poolVars, infoVars, syncVars>>

\* lines 280-305: the loop body receives the yielded value
LoopBody ==
    /\ block = "streamQuery"
    /\ pc \in {"yieldQ", "yieldP"}
    /\ IF delivered = Undefined
       THEN PostLoop(currentBatch, batchNumber)
       ELSE LET batch == Append(currentBatch, serializeRow(delivered))
            IN IF BatchFull(batch, EffectiveBatchSize(input.batchSize))
               THEN /\ emitted' = Append(emitted, BatchEvent(batchNumber, batch, TRUE))
                    /\ pc' = IF YieldedFrom = "P" THEN "emitP" ELSE "emitQ"
                    /\ currentBatch' = batch
                    /\ UNCHANGED <<rowQueue, delivered, promise, resolver, rejecter,
                                   batchNumber>>
               ELSE AfterYield(YieldedFrom, batch, batchNumber)
    /\ UNCHANGED <<block, input, resultSet, driver, done, error, issued, result>>
    /\ UNCHANGED <<poolVars, infoVars, syncVars>>

\* lines 296-304: the emit of a full batch returns; next batch, next()
BatchEmitReturns ==
    /\ block = "streamQuery"
    /\ pc \in {"emitQ", "emitP"}
    /\ AfterYield(YieldedFrom, <<>>, NextBatchNumber(batchNumber))
    /\ UNCHANGED <<block, input, resultSet, driver, done, error, issued, result>>
    /\ UNCHANGED <<poolVars, infoVars, syncVars>>

\* lines 309-315: the emit of the remaining rows returns
FinalEmitReturns ==
    /\ block = "streamQuery"
    /\ pc = "finalEmit"
    /\ pc' = "done"
    /\ UNCHANGED <<block, input, resultSet, streamVars, issued, result, emitted>>
    /\ UNCHANGED <<poolVars, infoVars, syncVars>>

\* ------------------------------------------------------- the other blocks
AffectedArrays == UNION { [1 .. n -> 0 .. MaxAffected] : n \in 0 .. MaxStatements }

\* getTableInfo line 27: schemaName || "dbo"
ActualSchema(schemaName) == IF schemaName = <<>> THEN <<"d", "b", "o">> ELSE schemaName

\* bulkInsert lines 88-101: one parameter per value, bigint passed as text
InsertParams(rows) ==
    [i \in 1 .. Len(rows) |-> IF rows[i].val.t = "bigint"
                              THEN [t |-> "string", s |-> rows[i].val.s]
                              ELSE rows[i].val]

\* every onEvent calls getPool(input.app.config) and awaits it (executeQuery
\* line 32, executeCommand 33, bulkInsert 64, streamQuery 268, getTableInfo 29)
BlockCallsGetPool ==
    /\ pc = "start"
    /\ block \in Blocks
    /\ GetPoolCall(BlockAppConfig, FALSE)
    /\ pc' = "getPool"
    /\ UNCHANGED <<block, input, resultSet, streamVars, issued, result, emitted>>
    /\ UNCHANGED <<infoVars, syncVars>>

\* the awaited getPool rejected: the invocation fails
GetPoolRejects ==
    /\ PoolRefused
    /\ pc' = "failed"
    /\ UNCHANGED <<block, input, resultSet, streamVars, issued, result, emitted>>
    /\ UNCHANGED <<poolVars, infoVars, syncVars>>

\* executeQuery lines 32-42, executeCommand lines 33-43
QueryStart ==
    /\ block \in {"executeQuery", "executeCommand"}
    /\ PoolAcquired
    /\ issued' = Append(issued, [kind |-> block])
    /\ pc' = "query"
    /\ UNCHANGED <<block, input, resultSet, streamVars, result, emitted>>
    /\ UNCHANGED <<poolVars, infoVars, syncVars>>

\* executeQuery lines 42-59
ExecuteQueryResolves ==
    /\ block = "executeQuery"
    /\ pc = "query"
    /\ emitted' = Append(emitted, [rows |-> serializeRows(resultSet)])
    /\ pc' = "emit"
    /\ UNCHANGED <<block, input, resultSet, streamVars, issued, result>>
    /\ UNCHANGED <<poolVars, infoVars, syncVars>>

\* executeCommand lines 43-53
ExecuteCommandResolves(rowsAffected) ==
    /\ block = "executeCommand"
    /\ pc = "query"
    /\ result' = rowsAffected
    /\ emitted' = Append(emitted, [rowsAffected |-> SumSeq(rowsAffected)])
    /\ pc' = "emit"
    /\ UNCHANGED <<block, input, resultSet, streamVars, issued>>
    /\ UNCHANGED <<poolVars, infoVars, syncVars>>

\* bulkInsert lines 63-106
BulkInsertStart ==
    /\ block = "bulkInsert"
    /\ PoolAcquired
    /\ IF Len(input.rows) = 0
       THEN /\ emitted' = Append(emitted, [rowCount |-> 0, table |-> input.table])
            /\ pc' = "emit"
            /\ UNCHANGED issued
       ELSE /\ issued' = Append(issued, [kind   |-> "insert",
                                         table  |-> sanitizeTableName(input.table),
                                         params |-> InsertParams(input.rows)])
            /\ pc' = "query"
            /\ UNCHANGED emitted
    /\ UNCHANGED <<block, input, resultSet, streamVars, result>>
    /\ UNCHANGED <<poolVars, infoVars, syncVars>>

\* bulkInsert lines 106-117
BulkInsertResolves(rowsAffected) ==
    /\ block = "bulkInsert"
    /\ pc = "query"
    /\ result' = rowsAffected
    /\ emitted' = Append(emitted,
                         [rowCount |-> ReportedRowCount(SumSeq(rowsAffected), Len(input.rows)),
                          table    |-> input.table])
    /\ pc' = "emit"
    /\ UNCHANGED <<block, input, resultSet, streamVars, issued>>
    /\ UNCHANGED <<poolVars, infoVars, syncVars>>

\* What the catalog holds for a name the query parameter matches: the
\* comparison `s.name = @p1 AND t.name = @p2` is made under the database's
\* collation, so the stored name may differ from the parameter in case.
UpperChar(ch) ==
    CASE ch = "u" -> "U"
      [] ch = "d" -> "D"
      [] ch = "s" -> "S"
      [] ch = "b" -> "B"
      [] ch = "o" -> "O"
      [] OTHER    -> ch

Upper(name) == [i \in 1 .. Len(name) |-> UpperChar(name[i])]

StoredNames(name) == {name, Upper(name)}

\* the recordsets the table query (lines 32-43) can return for its parameters:
\* no row, or the one row of the table; a null comment is <<>>
TableResults(schemaName, table) ==
    {<<>>} \cup
    { << [table_schema  |-> sc,
          table_name    |-> t,
          table_type    |-> "BASE TABLE",
          table_comment |-> com] >> :
        sc \in StoredNames(schemaName), t \in StoredNames(table),
        com \in {<<>>, <<"c">>} }

\* the schema inputs of getTableInfo: absent, or a name
SchemaNames == {<<>>, <<"s">>}

AllTableResults ==
    UNION { TableResults(ActualSchema(sc), t) : sc \in SchemaNames, t \in TableNames }

NoTableInfo == [table_schema |-> <<>>, table_name |-> <<>>,
                table_type |-> "", table_comment |-> <<>>]

\* rows of the columns query (lines 57-76), ordered by column_id
ColumnRows ==
    [column_name : {"a"}, data_type : {"int"}, is_nullable : {"YES", "NO"},
     column_default : {<<>>}, character_maximum_length : {4},
     numeric_precision : {10}, numeric_scale : {0}, column_comment : {<<>>}]
    \cup
    [column_name : {"b"}, data_type : {"nvarchar"}, is_nullable : {"YES"},
     column_default : {<<"x">>}, character_maximum_length : {-1},
     numeric_precision : {0}, numeric_scale : {0}, column_comment : {<<"c">>}]

ColumnResults ==
    {<<>>} \cup { <<c>> : c \in ColumnRows }
           \cup { p \in ColumnRows \X ColumnRows : p[1].column_name # p[2].column_name }

\* rows of the constraints query (lines 83-119): key constraints carry NULL
\* foreign columns, foreign keys carry the referenced table
KeyConstraint ==
    [constraint_name |-> "pk", constraint_type |-> "PRIMARY_KEY_CONSTRAINT",
     columns |-> "a", foreign_table_schema |-> <<>>,
     foreign_table_name |-> <<>>, foreign_columns |-> <<>>]

ForeignKey ==
    [constraint_name |-> "fk", constraint_type |-> "FOREIGN_KEY",
     columns |-> "b", foreign_table_schema |-> <<"dbo">>,
     foreign_table_name |-> <<"t">>, foreign_columns |-> <<"id">>]

ConstraintResults == { <<>>, <<KeyConstraint>>, <<KeyConstraint, ForeignKey>> }

\* rows of the indexes query (lines 126-139)
IndexRows == [index_name : {"ix"}, is_unique : BOOLEAN, is_primary : BOOLEAN,
              columns : {"a"}]

IndexResults == {<<>>} \cup { <<i>> : i \in IndexRows }

\* getTableInfo lines 152-161, 162-169 and 170-175: the three map callbacks
ColumnInfo(col) ==
    [name             |-> col.column_name,
     dataType         |-> col.data_type,
     nullable         |-> col.is_nullable = "YES",
     defaultValue     |-> col.column_default,
     maxLength        |-> col.character_maximum_length,
     numericPrecision |-> col.numeric_precision,
     numericScale     |-> col.numeric_scale,
     comment          |-> col.column_comment]

ConstraintInfo(con) ==
    [name               |-> con.constraint_name,
     type               |-> con.constraint_type,
     columns            |-> con.columns,
     foreignTableSchema |-> con.foreign_table_schema,
     foreignTableName   |-> con.foreign_table_name,
     foreignColumns     |-> con.foreign_columns]

IndexInfo(idx) ==
    [name      |-> idx.index_name,
     isUnique  |-> idx.is_unique,
     isPrimary |-> idx.is_primary,
     columns   |-> idx.columns]

\* getTableInfo lines 147-176: the event built from the four results
TableInfoEvent(info, columns, constraints, indexes) ==
    [schema       |-> info.table_schema,
     tableName    |-> info.table_name,
     tableType    |-> info.table_type,
     tableComment |-> info.table_comment,
     columns      |-> [i \in 1 .. Len(columns) |-> ColumnInfo(columns[i])],
     constraints  |-> [i \in 1 .. Len(constraints) |-> ConstraintInfo(constraints[i])],
     indexes      |-> [i \in 1 .. Len(indexes) |-> IndexInfo(indexes[i])]]

\* the parameters every getTableInfo query is given
InfoQuery(kind) ==
    [kind |-> kind, schema |-> ActualSchema(input.schema), table |-> input.table]

\* getTableInfo lines 26-48
TableInfoStart ==
    /\ block = "getTableInfo"
    /\ PoolAcquired
    /\ issued' = Append(issued, InfoQuery("table"))
    /\ pc' = "q1"
    /\ UNCHANGED <<block, input, resultSet, streamVars, result, emitted>>
    /\ UNCHANGED <<poolVars, infoVars, syncVars>>

\* getTableInfo lines 48-80: the table query resolved; no row means not found
TableQueryResolves(recordset) ==
    /\ block = "getTableInfo"
    /\ pc = "q1"
    /\ recordset \in TableResults(ActualSchema(input.schema), input.table)
    /\ IF Len(recordset) = 0
       THEN /\ pc' = "failed"
            /\ UNCHANGED <<issued, tableInfo>>
       ELSE /\ tableInfo' = recordset[1]
            /\ issued' = Append(issued, InfoQuery("columns"))
            /\ pc' = "q2"
    /\ UNCHANGED <<block, input, resultSet, streamVars, result, emitted>>
    /\ UNCHANGED <<columnsResult, constraintsResult>>
    /\ UNCHANGED <<poolVars, syncVars>>

\* getTableInfo lines 80-124: the columns query resolved
ColumnsQueryResolves(recordset) ==
    /\ block = "getTableInfo"
    /\ pc = "q2"
    /\ columnsResult' = recordset
    /\ issued' = Append(issued, InfoQuery("constraints"))
    /\ pc' = "q3"
    /\ UNCHANGED <<block, input, resultSet, streamVars, result, emitted>>
    /\ UNCHANGED <<tableInfo, constraintsResult>>
    /\ UNCHANGED <<poolVars, syncVars>>

\* getTableInfo lines 124-145: the constraints query resolved
ConstraintsQueryResolves(recordset) ==
    /\ block = "getTableInfo"
    /\ pc = "q3"
    /\ constraintsResult' = recordset
    /\ issued' = Append(issued, InfoQuery("indexes"))
    /\ pc' = "q4"
    /\ UNCHANGED <<block, input, resultSet, streamVars, result, emitted>>
    /\ UNCHANGED <<tableInfo, columnsResult>>
    /\ UNCHANGED <<poolVars, syncVars>>

\* getTableInfo lines 145-177: the indexes query resolved
IndexQueryResolves(recordset) ==
    /\ block = "getTableInfo"
    /\ pc = "q4"
    /\ emitted' = Append(emitted, TableInfoEvent(tableInfo, columnsResult,
                                                 constraintsResult, recordset))
    /\ pc' = "emit"
    /\ UNCHANGED <<block, input, resultSet, streamVars, issued, result>>
    /\ UNCHANGED <<poolVars, infoVars, syncVars>>

\* an awaited request.query rejects
QueryRejects ==
    /\ pc \in {"query", "q1", "q2", "q3", "q4"}
    /\ pc' = "failed"
    /\ UNCHANGED <<block, input, resultSet, streamVars, issued, result, emitted>>
    /\ UNCHANGED <<poolVars, infoVars, syncVars>>

\* the awaited events.emit of a one-event block returns
EmitReturns ==
    /\ pc = "emit"
    /\ pc' = "done"
    /\ UNCHANGED <<block, input, resultSet, streamVars, issued, result, emitted>>
    /\ UNCHANGED <<poolVars, infoVars, syncVars>>

NoInput == [table |-> <<>>, schema |-> <<>>, rows |-> <<>>, batchSize |-> NoBatchSize]

BlockInputs ==
    [block : {"executeQuery"}, input : {NoInput}, resultSet : RowSets]
    \cup [block : {"executeCommand"}, input : {NoInput}, resultSet : {<<>>}]
    \cup [block : {"bulkInsert"},
          input : { [NoInput EXCEPT !.table = t, !.rows = r] : t \in TableNames, r \in RowSets },
          resultSet : {<<>>}]
    \cup [block : {"streamQuery"},
          input : { [NoInput EXCEPT !.batchSize = b] : b \in BatchSizes },
          resultSet : RowSets]
    \cup [block : {"streamQuery"}, input : {NoInput}, resultSet : LongRowSets]
    \cup [block : {"getTableInfo"},
          input : { [NoInput EXCEPT !.table = t, !.schema = sc] :
                        t \in TableNames, sc \in SchemaNames },
          resultSet : {<<>>}]

BlockStart ==
    /\ pc = "start"
    /\ driver = [started  |-> FALSE,
                 next     |-> 1,        \* the next row of resultSet to emit
                 errors   |-> 0,        \* error events emitted
                 errorAt  |-> 0,        \* history: rows emitted before the first error
                 finished |-> FALSE]
    /\ resolver = FALSE
    /\ rejecter = FALSE
    /\ rowQueue = <<>>
    /\ done = FALSE
    /\ error = FALSE
    /\ promise = NoPromise
    /\ delivered = Undefined
    /\ batchNumber = 0
    /\ currentBatch = <<>>
    /\ issued = <<>>
    /\ result = <<>>
    /\ emitted = <<>>
    /\ tableInfo = NoTableInfo
    /\ columnsResult = <<>>
    /\ constraintsResult = <<>>

BlockInit ==
    /\ \E i \in BlockInputs :
          /\ block = i.block
          /\ input = i.input
          /\ resultSet = i.resultSet
    /\ BlockStart

\* no block runs: the state of the block variables in the pool specification
BlockIdle ==
    /\ block = "none"
    /\ input = NoInput
    /\ resultSet = <<>>
    /\ BlockStart

BlockNext ==
    \/ BlockCallsGetPool
    \/ \E c \in 1 .. MaxCalls : ConnectResolves(c)
    \/ \E c \in 1 .. MaxCalls : ConnectRejects(c)
    \/ GetPoolRejects
    \/ QueryStart
    \/ ExecuteQueryResolves
    \/ \E rowsAffected \in AffectedArrays : ExecuteCommandResolves(rowsAffected)
    \/ BulkInsertStart
    \/ \E rowsAffected \in AffectedArrays : BulkInsertResolves(rowsAffected)
    \/ TableInfoStart
    \/ \E recordset \in AllTableResults : TableQueryResolves(recordset)
    \/ \E recordset \in ColumnResults : ColumnsQueryResolves(recordset)
    \/ \E recordset \in ConstraintResults : ConstraintsQueryResolves(recordset)
    \/ \E recordset \in IndexResults : IndexQueryResolves(recordset)
    \/ QueryRejects
    \/ EmitReturns
    \/ StreamStart
    \/ DriverRow
    \/ DriverError
    \/ DriverDone
    \/ AwaitResumes
    \/ LoopBody
    \/ BatchEmitReturns
    \/ FinalEmitReturns

\* ------------------------------------------------------------------ onSync
\* errors the driver rejects with: error.code and error.number
DriverErrors ==
    { [code |-> "ENOTFOUND", number |-> 0],
      [code |-> "ECONNREFUSED", number |-> 0],
      [code |-> "ESOCKET", number |-> 0],
      [code |-> "ELOGIN", number |-> 18456],
      [code |-> "ELOGIN", number |-> 4060],
      [code |-> "EREQUEST", number |-> 208] }

NoError == [code |-> "", number |-> 0]

\* the can_connect column of the permission query: 1, 0 or NULL
CanConnectValues == {"1", "0", "null"}

\* main.ts line 122: !permCheck.recordset[0].can_connect
Falsy(canConnect) == canConnect # "1"

\* main.ts lines 142-151
StatusDescription(err) ==
    IF err.code \in {"ENOTFOUND", "ECONNREFUSED"} THEN "Cannot reach database server"
    ELSE IF err.code = "ESOCKET" THEN "Network error connecting to server"
    ELSE IF err.number = 18456 THEN "Authentication failed"
    ELSE IF err.number = 4060 THEN "Database does not exist"
    ELSE "Connection failed"

SyncIdle(appConfig) ==
    [pc          |-> "idle",
     config      |-> createPoolConfig(appConfig),  \* poolConfig, lines 88-104
     pool        |-> FALSE,     \* pool # null
     error       |-> NoError,   \* the error caught at line 135
     connectOk   |-> FALSE,     \* history: connect resolved
     probeOk     |-> FALSE,     \* history: SELECT 1 resolved
     permOk      |-> FALSE,     \* history: the permission query resolved
     canConnect  |-> "null",    \* history: its can_connect
     closeOk     |-> FALSE,     \* history: the close of line 123 or 130 resolved
     closeCalls  |-> 0,         \* history: how often close was invoked
     newStatus   |-> "",
     description |-> ""]

\* main.ts lines 124-127, 132-134, 153-156: the value returned
SyncReturn(s, status, description) ==
    [s EXCEPT !.pc = "returned", !.newStatus = status, !.description = description]

\* main.ts lines 135-138: the catch block is entered; it closes the pool if
\* there is one, and otherwise goes straight to the failed status
SyncCatch(s, err) ==
    IF s.pool
    THEN [s EXCEPT !.pc = "catchClose", !.error = err, !.closeCalls = @ + 1]
    ELSE SyncReturn([s EXCEPT !.error = err], "failed", StatusDescription(err))

\* a catch block whose close is awaited without its .catch
SwallowsCloseError_not(ok) == ok

\* main.ts line 137: .catch(() => {}) swallows a rejection of the close
SwallowsCloseError(ok) == TRUE

\* main.ts lines 106-109: construct the pool and start connect; a throwing
\* constructor is caught with pool still null
SyncStart(constructed, err) ==
    /\ sync.pc = "idle"
    /\ sync' = IF constructed
               THEN [sync EXCEPT !.pc = "connect", !.pool = TRUE]
               ELSE SyncCatch(sync, err)
    /\ UNCHANGED <<poolVars, blockVars>>

\* main.ts lines 109-112: connect settles; SELECT 1 is sent
SyncConnectSettles(ok, err) ==
    /\ sync.pc = "connect"
    /\ sync' = IF ok
               THEN [sync EXCEPT !.pc = "probe", !.connectOk = TRUE]
               ELSE SyncCatch(sync, err)
    /\ UNCHANGED <<poolVars, blockVars>>

\* main.ts lines 112-120: SELECT 1 settles; the permission query is sent
SyncProbeSettles(ok, err) ==
    /\ sync.pc = "probe"
    /\ sync' = IF ok
               THEN [sync EXCEPT !.pc = "perm", !.probeOk = TRUE]
               ELSE SyncCatch(sync, err)
    /\ UNCHANGED <<poolVars, blockVars>>

\* main.ts lines 115-130: the permission query settles; close is invoked on
\* either branch
SyncPermSettles(ok, canConnect, err) ==
    /\ sync.pc = "perm"
    /\ sync' = IF ok
               THEN [sync EXCEPT !.pc = IF Falsy(canConnect) THEN "closeDenied" ELSE "close",
                                 !.permOk = TRUE,
                                 !.canConnect = canConnect,
                                 !.closeCalls = @ + 1]
               ELSE SyncCatch(sync, err)
    /\ UNCHANGED <<poolVars, blockVars>>

\* main.ts lines 123-134: the close of the try block settles
SyncCloseSettles(ok, err) ==
    /\ sync.pc \in {"closeDenied", "close"}
    /\ sync' = IF ok
               THEN IF sync.pc = "closeDenied"
                    THEN SyncReturn([sync EXCEPT !.closeOk = TRUE], "failed",
                                    "Insufficient database permissions")
                    ELSE SyncReturn([sync EXCEPT !.closeOk = TRUE], "ready", "")
               ELSE SyncCatch(sync, err)
    /\ UNCHANGED <<poolVars, blockVars>>

\* main.ts lines 137-156: the close of the catch block settles
SyncCatchCloseSettles(ok) ==
    /\ sync.pc = "catchClose"
    /\ sync' = IF SwallowsCloseError(ok)
               THEN SyncReturn(sync, "failed", StatusDescription(sync.error))
               ELSE [sync EXCEPT !.pc = "threw"]
    /\ UNCHANGED <<poolVars, blockVars>>

SyncInit == \E appConfig \in AppConfigs : sync = SyncIdle(appConfig)

\* onSync does not run: the state of `sync` in the other specifications
SyncUnused == sync = SyncIdle([server |-> "sqlA", database |-> "master", label |-> "x"])

SyncNext ==
    \/ \E constructed \in BOOLEAN, err \in DriverErrors : SyncStart(constructed, err)
    \/ \E ok \in BOOLEAN, err \in DriverErrors : SyncConnectSettles(ok, err)
    \/ \E ok \in BOOLEAN, err \in DriverErrors : SyncProbeSettles(ok, err)
    \/ \E ok \in BOOLEAN, c \in CanConnectValues, err \in DriverErrors :
          SyncPermSettles(ok, c, err)
    \/ \E ok \in BOOLEAN, err \in DriverErrors : SyncCloseSettles(ok, err)
    \/ \E ok \in BOOLEAN : SyncCatchCloseSettles(ok)

\* -------------------------------------------------------- onSync properties
\* C11: onSync returns 'ready' only if connect, SELECT 1 and the permission
\* query succeeded with a truthy can_connect; it returns 'failed' with
\* 'Insufficient database permissions' when the permission query succeeded
\* with a falsy can_connect and the close succeeded; otherwise it returns
\* 'failed'; no error of connect, query or close escapes it.
C11_SyncStatus ==
    /\ sync.pc # "threw"
    /\ sync.pc = "returned" =>
         /\ sync.newStatus \in {"ready", "failed"}
         /\ sync.newStatus = "ready" =>
               (sync.connectOk /\ sync.probeOk /\ sync.permOk /\ sync.canConnect = "1")
         /\ (sync.permOk /\ sync.canConnect # "1" /\ sync.closeOk) =>
               /\ sync.newStatus = "failed"
               /\ sync.description = "Insufficient database permissions"
         /\ ~(sync.connectOk /\ sync.probeOk /\ sync.permOk /\ sync.canConnect = "1") =>
               sync.newStatus = "failed"

\* the close of the try block rejected, the catch block closed again and its
\* close rejected as well; the status is still returned
C11_Witness ==
    /\ sync.pc = "returned"
    /\ sync.newStatus = "failed"
    /\ sync.permOk
    /\ ~sync.closeOk
    /\ sync.closeCalls = 2

\* ------------------------------------------------------- pool properties
InInit(c) == calls[c].pc \in {"closing", "connecting"}

\* C1: getPool serializes initialization: no two initializations (close +
\* construct + connect) for the same configuration hash are in progress at
\* the same time.
C1_SerializedInit ==
    \A a, b \in CallIds :
        ( /\ InInit(a) /\ InInit(b)
          /\ getConfigHash(calls[a].config) = getConfigHash(calls[b].config) )
        => a = b

\* C2: the pool a getPool(c) call resolves to was constructed from a
\* configuration with the hash of c.
C2_KeyedByHash ==
    \A c \in CallIds :
        calls[c].pc = "resolved"
        => pools[calls[c].result].hash = getConfigHash(calls[c].config)

\* C3 (state part): a call that found a shared pool of another hash has had
\* close invoked on that pool by the time its own pool is constructed and
\* connecting, and a close that rejected still leads to the new pool.
C3_CloseBeforeConnect ==
    \A c \in CallIds :
        /\ (calls[c].sawOld # 0 /\ calls[c].newPool # 0)
           => pools[calls[c].sawOld].closeCalls > 0
        /\ (calls[c].sawOld # 0 /\ calls[c].pc # "closing")
           => calls[c].newPool # 0
        /\ calls[c].closeErr => calls[c].newPool # 0

\* C3 (step part): the step in which connect succeeds makes the new pool the
\* shared pool and stores the hash of the call's configuration.
C3_StoreOnConnect ==
    \A c \in CallIds :
        (calls[c].pc = "connecting" /\ calls'[c].pc = "resolved")
        => /\ globalPool' = calls[c].newPool
           /\ currentConfigHash' = getConfigHash(calls[c].config)
           /\ pools'[globalPool'].hash = currentConfigHash'

\* C3: the pool is recreated when the configuration changes: close on the old
\* pool is invoked before connect on the new one starts, a close error does
\* not prevent the new pool, and after a successful connect the shared pool is
\* the new pool and the stored hash is the new configuration's hash.
C3_Recreate == []C3_CloseBeforeConnect /\ [][C3_StoreOnConnect]_poolVars

C3_Witness ==
    \E c \in CallIds :
        /\ calls[c].sawOld # 0
        /\ calls[c].closeErr
        /\ calls[c].pc = "resolved"
        /\ globalPool = calls[c].newPool
        /\ pools[calls[c].sawOld].closeCalls > 0

\* C4: every pool getPool connected is the shared pool or has had close
\* invoked on it.
C4_NoLeak ==
    \A p \in PoolIds :
        pools[p].connectOk => (p = globalPool \/ pools[p].closeCalls > 0)

\* C12: a failed initialization is not cached; in particular the promise is
\* cleared when the attempt is done, so that poolInitializationPromise is
\* non-null exactly while an initialization attempt is in progress.
C12_PromiseWhileInit ==
    (poolInitializationPromise # 0) <=> (\E c \in CallIds : InInit(c))

\* ------------------------------------------------------ block properties
RECURSIVE ConcatRows(_)
\* the rows of a sequence of batch events, in emission order
ConcatRows(events) ==
    IF events = <<>> THEN <<>> ELSE Head(events).rows \o ConcatRows(Tail(events))

IsPrefix(a, b) == Len(a) <= Len(b) /\ \A i \in 1 .. Len(a) : a[i] = b[i]

\* a streamQuery run whose query was sent and met no driver error so far
CleanStream == block = "streamQuery" /\ driver.started /\ driver.errors = 0

\* C5: with rows r1..rn, done and no error from the driver, the rows of the
\* emitted batches are r1..rn (bigint values as text) in that order, each once:
\* a prefix of them while the run lasts, all of them when it has completed.
C5_OrderedComplete ==
    CleanStream =>
        /\ IsPrefix(ConcatRows(emitted), serializeRows(resultSet))
        /\ pc # "failed"
        /\ pc = "done" => ConcatRows(emitted) = serializeRows(resultSet)

C5_Witness ==
    /\ CleanStream
    /\ pc = "done"
    /\ Len(resultSet) = 3
    /\ Len(emitted) = 2
    /\ \E i \in 1 .. 3 : resultSet[i].val.t = "bigint"

\* C6: in a streamQuery run completed without error, a batch carries
\* hasMore = TRUE exactly if another batch is emitted after it.
C6_HasMoreExact ==
    (CleanStream /\ pc = "done")
        => \A k \in 1 .. Len(emitted) : emitted[k].hasMore = (k < Len(emitted))

\* C7: the k-th batch event of a streamQuery run carries batchNumber k - 1.
C7_BatchNumbers ==
    block = "streamQuery"
        => \A k \in 1 .. Len(emitted) : emitted[k].batchNumber = k - 1

C7_Witness ==
    /\ block = "streamQuery"
    /\ pc = "done"
    /\ Len(emitted) = 3
    /\ emitted[3].batchNumber = 2
    /\ emitted[3].rowCount < emitted[2].rowCount

\* C8: for a positive batchSize (100 when it is absent or 0) every batch has
\* rowCount = number of its rows, none is empty, every batch but the last
\* emitted has exactly batchSize rows and the last has 1..batchSize rows.
C8_BatchSize ==
    LET size == IF input.batchSize.given /\ input.batchSize.n > 0
                THEN input.batchSize.n ELSE 100
    IN block = "streamQuery"
        => \A k \in 1 .. Len(emitted) :
              /\ emitted[k].rowCount = Len(emitted[k].rows)
              /\ Len(emitted[k].rows) >= 1
              /\ Len(emitted[k].rows) <= size
              /\ k < Len(emitted) => Len(emitted[k].rows) = size

C8_Witness ==
    /\ block = "streamQuery"
    /\ ~input.batchSize.given
    /\ pc = "done"
    /\ Len(emitted) = 2
    /\ emitted[1].rowCount = 100
    /\ emitted[2].rowCount = 1

\* C9: an invocation of a block that completes without throwing has emitted
\* at least one event.
C9_EmitsResult == pc = "done" => Len(emitted) >= 1

\* C10: for a non-empty rows input whose INSERT succeeds, bulkInsert emits
\* exactly one event, with rowCount the sum of the result's rowsAffected and
\* table the table name of the input.
C10_RowCount ==
    (block = "bulkInsert" /\ Len(input.rows) > 0 /\ pc \in {"emit", "done"})
        => /\ Len(emitted) = 1
           /\ emitted[1].rowCount = SumSeq(result)
           /\ emitted[1].table = input.table

\* the rows streamRows has yielded to the loop body of a run that failed
YieldedRows == Len(ConcatRows(emitted)) + Len(currentBatch)

\* C13: a driver error during a streamQuery run fails the run: the run does
\* not complete, and the rows of a partially filled batch are not emitted.
C13_ErrorFailsStream ==
    (block = "streamQuery" /\ driver.errors > 0) => pc \notin {"finalEmit", "done"}

\* C14: every row the driver emitted before its error event has been yielded
\* to the consumer by the time streamRows raises the error.
C14_RowsBeforeError ==
    (block = "streamQuery" /\ driver.errors > 0 /\ pc = "failed")
        => YieldedRows >= driver.errorAt

\* ---------------------------------------------------------- specifications
vars == <<poolVars, blockVars, syncVars>>

Init == PoolInit /\ BlockIdle /\ SyncUnused
Next == PoolNext
Spec == Init /\ [][Next]_vars

InitBlock == PoolInit /\ BlockInit /\ SyncUnused
NextBlock == BlockNext
SpecBlock == InitBlock /\ [][NextBlock]_vars

InitSync == PoolInit /\ BlockIdle /\ SyncInit
NextSync == SyncNext
SpecSync == InitSync /\ [][NextSync]_vars

====
